---- MODULE Spec2Model ----
(***************************************************************************)
(* Model of the chat-session gateway (SimpleTelegramAgent), the Telegram   *)
(* orchestrator (TelegramOrchestrator) and its keyword router.             *)
(*                                                                         *)
(* Python values are encoded as follows.                                   *)
(*   None               the string PyNone                                  *)
(*   Optional[object]   <<>> for None, <<obj>> for an object               *)
(*   dict               a function from its keys (the empty dict is <<>>)  *)
(*   JSON value         a record tagged by its type, field t               *)
(*   message text       a sequence of one-character strings                *)
(* Timestamps in the returned records are not modelled.                    *)
(***************************************************************************)
EXTENDS Integers, Sequences, FiniteSets, TLC

VARIABLES
    current_context,   \* SimpleTelegramAgent.current_context
    interaction_mode,  \* SimpleTelegramAgent.interaction_mode
    call,              \* the gateway call made last: running, returned or raised
    hist,              \* history: what happened since the last inbound receipt
    handler,           \* the requests in progress on the TelegramOrchestrator
    route_input,       \* the router alone: a text to classify
    route_output,      \* the router alone: its decision for route_input
    active_workflows,  \* AgentOrchestrator.active_workflows: the Ledger table
    now,               \* the clock datetime.now() reads, in ticks
    ledger_call,       \* the last Ledger operation or HTTP request and its outcome
    background_tasks,  \* executions handed to BackgroundTasks, not yet finished
    created_ids,       \* history: the ids create_workflow returned, in call order
    facade,            \* the coordination in progress on the AgentOrchestrator
    wrapper_call,      \* the last run/arun of the OrchestratorAgentWrapper
    registry_call,     \* the last get_agent of the registry
    tool_call          \* the last call of a tool function

gateway == <<current_context, interaction_mode, call, hist>>
router == <<route_input, route_output>>
ledger == <<active_workflows, now, ledger_call, background_tasks, created_ids>>
services == <<facade, wrapper_call, registry_call, tool_call>>
vars == <<current_context, interaction_mode, call, hist, handler,
          route_input, route_output,
          active_workflows, now, ledger_call, background_tasks, created_ids,
          facade, wrapper_call, registry_call, tool_call>>

PyNone == "<None>"

\* ---------------------------------------------------------------- JSON values
JNull == [t |-> "null"]
JInt(n) == [t |-> "int", n |-> n]
JStr(s) == [t |-> "str", s |-> s]
JText(chars) == [t |-> "text", chars |-> chars]
JDict(d) == [t |-> "dict", d |-> d]

\* dict.get(key, default)
Get(d, key, default) == IF key \in DOMAIN d THEN d[key] ELSE default

\* str(value) of a JSON scalar
Str(j) ==
    CASE j.t = "int" -> ToString(j.n)
      [] j.t = "str" -> j.s
      [] j.t = "null" -> "None"

\* ---------------------------------------------------------------- the gateway
MessageContext(is_reply, chat_id, admin) ==
    [is_reply_to_incoming |-> is_reply, incoming_chat_id |-> chat_id,
     admin_initiated |-> admin]

Modes == {"playground", "telegram_webhook", "explicit"}

\* A call of a gateway method: its arguments, how far it got, the instruction
\* it has handed to self.run (msg) and what it returned or raised (value).
Returned(op, caller, args, value) ==
    [op |-> op, caller |-> caller, args |-> args, state |-> "returned",
     msg |-> <<>>, value |-> value]

Raised(op, caller, args, exception) ==
    [op |-> op, caller |-> caller, args |-> args, state |-> "raised",
     msg |-> <<>>, value |-> [exception |-> exception]]

\* The method is inside self.run(context_msg); context_msg names chat_id
\* and text.
Running(op, caller, args, chat_id, text) ==
    [op |-> op, caller |-> caller, args |-> args, state |-> "running",
     msg |-> <<[chat_id |-> chat_id, text |-> text]>>,
     value |-> [pending |-> TRUE]]

Idle == call.state # "running"

\* ------------------------------------------------ handle_incoming_message
\* The fields the method extracts from the update; ok is FALSE when one of
\* the chained .get calls is made on a value that is not a dict
\* (AttributeError).
IncomingFields(update) ==
    LET message == Get(update, "message", JDict(<<>>)) IN
    IF message.t # "dict" THEN [ok |-> FALSE]
    ELSE LET chat == Get(message.d, "chat", JDict(<<>>))
             from == Get(message.d, "from", JDict(<<>>)) IN
         IF chat.t # "dict" \/ from.t # "dict" THEN [ok |-> FALSE]
         ELSE [ok |-> TRUE,
               chat_id |-> Str(Get(chat.d, "id", JStr(""))),
               user_id |-> Str(Get(from.d, "id", JStr(""))),
               text |-> Get(message.d, "text", JText(<<>>))]

ReceiptOfSender(f) ==
    [action |-> "message_received", chat_id |-> f.user_id, user_id |-> f.user_id,
     message_text |-> f.text, success |-> TRUE, context_set |-> "reply_mode",
     reply_chat_id_locked |-> f.user_id]

Receipt(f) ==
    [action |-> "message_received", chat_id |-> f.chat_id, user_id |-> f.user_id,
     message_text |-> f.text, success |-> TRUE, context_set |-> "reply_mode",
     reply_chat_id_locked |-> f.chat_id]

IncomingContextNoId(chat_id) == MessageContext(TRUE, PyNone, FALSE)

IncomingContextKeepFirst(chat_id) ==
    IF current_context # <<>> /\ current_context[1].is_reply_to_incoming
    THEN current_context[1]
    ELSE MessageContext(TRUE, chat_id, FALSE)

\* The context stored for the replies to come.
IncomingContext(chat_id) == MessageContext(TRUE, chat_id, FALSE)

handle_incoming_message(update, caller) ==
    /\ Idle
    /\ LET f == IncomingFields(update) IN
       IF ~f.ok
       THEN /\ call' = Raised("handle_incoming_message", caller,
                               [update |-> update], "AttributeError")
            /\ UNCHANGED <<current_context, interaction_mode, hist>>
       ELSE /\ current_context' = <<IncomingContext(f.chat_id)>>
            /\ interaction_mode' = "telegram_webhook"
            /\ call' = Returned("handle_incoming_message", caller,
                                 [update |-> update], Receipt(f))
            /\ hist' = [last_inbound |-> f.chat_id, reply_since |-> "none"]

\* ------------------------------------------------------------- send_reply
\* The guard of line 178.
ReplyRefused(context) ==
    context = <<>> \/ ~context[1].is_reply_to_incoming

\* The destination of a reply: read from the context, line 181.
ReplyChatId(context) == context[1].incoming_chat_id

SendsUnlessPlayground(mode) == mode # "playground"

\* Line 184.
SendsViaTelegram(mode) == mode = "telegram_webhook"

ReplyFailed ==
    [action |-> "reply_failed", error |-> "No incoming message to reply to",
     success |-> FALSE]

TextReply(text) ==
    [action |-> "text_reply", text |-> text, mode |-> "text_only",
     chat_id_locked |-> FALSE, response |-> text, success |-> TRUE]

ReplySent(chat_id, text, response) ==
    [action |-> "reply_sent", chat_id |-> chat_id, text |-> text,
     mode |-> "reply_to_incoming", chat_id_locked |-> TRUE,
     response |-> response, success |-> TRUE]

\* response.content if response else "No response"
Content(response) == IF response = <<>> THEN "No response" ELSE response[1]

Responses == {<<>>, <<"Message sent">>}

\* send_reply up to its return or up to its call of self.run.
send_reply(text, caller) ==
    /\ Idle
    /\ IF ReplyRefused(current_context)
       THEN /\ call' = Returned("send_reply", caller, [text |-> text], ReplyFailed)
            /\ UNCHANGED <<current_context, interaction_mode, hist>>
       ELSE IF SendsViaTelegram(interaction_mode)
            THEN /\ call' = Running("send_reply", caller, [text |-> text],
                                    ReplyChatId(current_context), text)
                 /\ UNCHANGED <<current_context, interaction_mode, hist>>
            ELSE /\ call' = Returned("send_reply", caller, [text |-> text],
                                     TextReply(text))
                 /\ hist' = [hist EXCEPT !.reply_since = "text_reply"]
                 /\ UNCHANGED <<current_context, interaction_mode>>

ContextAfterReplyKept == current_context
ModeAfterReplyKept == interaction_mode

\* What send_reply leaves behind once self.run has returned, lines 190-191.
ContextAfterReply == <<>>
ModeAfterReply == "playground"

send_reply_returns(response) ==
    /\ call.state = "running"
    /\ call.op = "send_reply"
    /\ current_context' = ContextAfterReply
    /\ interaction_mode' = ModeAfterReply
    /\ call' = Returned("send_reply", call.caller, call.args,
                        ReplySent(call.msg[1].chat_id, call.msg[1].text,
                                  Content(response)))
    /\ hist' = [hist EXCEPT !.reply_since = "reply_sent"]

\* ----------------------------------------------------- send_admin_message
AdminContext == MessageContext(FALSE, PyNone, TRUE)

AdminSent(chat_id, text, response) ==
    [action |-> "admin_sent", chat_id |-> chat_id, text |-> text,
     mode |-> "admin_initiated", chat_id_locked |-> FALSE,
     response |-> response, success |-> TRUE]

AdminNeedsInbound(context, mode) == context # <<>>

\* The precondition of send_admin_message: the method has none.
AdminPermitted(context, mode) == TRUE

\* The destination of an operator send: the caller's chat_id, line 230.
AdminChatId(chat_id, context) == chat_id

\* send_admin_message up to its call of self.run.
send_admin_message(chat_id, text, caller) ==
    /\ Idle
    /\ AdminPermitted(current_context, interaction_mode)
    /\ current_context' = <<AdminContext>>
    /\ interaction_mode' = "explicit"
    /\ call' = Running("send_admin_message", caller,
                       [chat_id |-> chat_id, text |-> text],
                       AdminChatId(chat_id, current_context), text)
    /\ UNCHANGED hist

ModeAfterAdminWebhook == "telegram_webhook"

\* What send_admin_message leaves behind, lines 234-235.
ContextAfterAdmin(context) == <<>>
ModeAfterAdmin == "playground"

send_admin_message_returns(response) ==
    /\ call.state = "running"
    /\ call.op = "send_admin_message"
    /\ current_context' = ContextAfterAdmin(current_context)
    /\ interaction_mode' = ModeAfterAdmin
    /\ call' = Returned("send_admin_message", call.caller, call.args,
                        AdminSent(call.msg[1].chat_id, call.msg[1].text,
                                  Content(response)))
    /\ UNCHANGED hist

\* self.run raises: the exception leaves the method at once, so nothing is
\* cleared.
run_raises ==
    /\ call.state = "running"
    /\ call' = Raised(call.op, call.caller, call.args, "Exception")
    /\ UNCHANGED <<current_context, interaction_mode, hist>>

\* --------------------------------------------------- set_interaction_mode
set_interaction_mode(mode) ==
    /\ Idle
    /\ interaction_mode' = mode
    /\ call' = Returned("set_interaction_mode", "direct", [mode |-> mode],
                        [returned |-> PyNone])
    /\ UNCHANGED <<current_context, hist>>

\* ------------------------------------------------------------- the router
UpperCase ==
    <<"A", "B", "C", "D", "E", "F", "G", "H", "I", "J", "K", "L", "M",
      "N", "O", "P", "Q", "R", "S", "T", "U", "V", "W", "X", "Y", "Z">>
LowerCase ==
    <<"a", "b", "c", "d", "e", "f", "g", "h", "i", "j", "k", "l", "m",
      "n", "o", "p", "q", "r", "s", "t", "u", "v", "w", "x", "y", "z">>

LowerChar(c) ==
    IF \E i \in 1..Len(UpperCase) : UpperCase[i] = c
    THEN LowerCase[CHOOSE i \in 1..Len(UpperCase) : UpperCase[i] = c]
    ELSE c

\* str.lower() on ASCII text
Lower(text) == [i \in 1..Len(text) |-> LowerChar(text[i])]

\* keyword in text
Contains(text, keyword) ==
    \E i \in 0..(Len(text) - Len(keyword)) :
        SubSeq(text, i + 1, i + Len(keyword)) = keyword

\* line 114: ['masumi', 'hire agent', 'find agent', 'agent network', 'blockchain agent']
masumi_keywords ==
    << <<"m", "a", "s", "u", "m", "i">>,
       <<"h", "i", "r", "e", " ", "a", "g", "e", "n", "t">>,
       <<"f", "i", "n", "d", " ", "a", "g", "e", "n", "t">>,
       <<"a", "g", "e", "n", "t", " ", "n", "e", "t", "w", "o", "r", "k">>,
       <<"b", "l", "o", "c", "k", "c", "h", "a", "i", "n", " ", "a", "g", "e", "n", "t">> >>

\* line 117: ['stock', 'price', 'financial', 'market', 'trading', 'investment']
finance_keywords ==
    << <<"s", "t", "o", "c", "k">>,
       <<"p", "r", "i", "c", "e">>,
       <<"f", "i", "n", "a", "n", "c", "i", "a", "l">>,
       <<"m", "a", "r", "k", "e", "t">>,
       <<"t", "r", "a", "d", "i", "n", "g">>,
       <<"i", "n", "v", "e", "s", "t", "m", "e", "n", "t">> >>

\* line 120: ['search', 'find information', 'lookup', 'google', 'web']
web_keywords ==
    << <<"s", "e", "a", "r", "c", "h">>,
       <<"f", "i", "n", "d", " ", "i", "n", "f", "o", "r", "m", "a", "t", "i", "o", "n">>,
       <<"l", "o", "o", "k", "u", "p">>,
       <<"g", "o", "o", "g", "l", "e">>,
       <<"w", "e", "b">> >>

\* line 123: ['help', 'start', 'hello', 'hi', 'what can you do']
help_keywords ==
    << <<"h", "e", "l", "p">>,
       <<"s", "t", "a", "r", "t">>,
       <<"h", "e", "l", "l", "o">>,
       <<"h", "i">>,
       <<"w", "h", "a", "t", " ", "c", "a", "n", " ", "y", "o", "u", " ", "d", "o">> >>

\* any(keyword in text for keyword in keywords)
AnyKeyword(text, keywords) ==
    \E k \in 1..Len(keywords) : Contains(text, keywords[k])

ReplyTextTrimmed(template, echo) ==
    [template |-> template, echo |-> SelectSeq(echo, LAMBDA c : c # " ")]

\* A reply text: the canned template of a category and, for the fallback,
\* the text echoed between the quotes.
ReplyText(template, echo) == [template |-> template, echo |-> echo]

\* The reply_markup of a branch: the callback_data of its buttons.
RouteMarkup(workflow) ==
    CASE workflow = "masumi_network" ->
             <<"masumi_list", "masumi_hire", "masumi_status">>
      [] workflow = "help" ->
             <<"help_masumi", "help_finance", "help_web", "help_telegram">>

HasMarkup(workflow) == workflow \in {"masumi_network", "help"}

DecisionNoCategory(workflow, text) ==
    IF workflow = "general_response"
    THEN [requires_reply |-> TRUE, reply_text |-> ReplyText(workflow, text)]
    ELSE [requires_reply |-> TRUE, reply_text |-> ReplyText(workflow, <<>>),
          suggested_workflow |-> workflow]

DecisionNoReply(workflow, text) ==
    [requires_reply |-> FALSE, reply_text |-> ReplyText(workflow, text),
     suggested_workflow |-> workflow]

Decision(workflow, text) ==
    IF workflow = "general_response"
    THEN [requires_reply |-> TRUE, reply_text |-> ReplyText(workflow, text),
          suggested_workflow |-> workflow]
    ELSE IF HasMarkup(workflow)
         THEN [requires_reply |-> TRUE, reply_text |-> ReplyText(workflow, <<>>),
               suggested_workflow |-> workflow,
               reply_markup |-> RouteMarkup(workflow)]
         ELSE [requires_reply |-> TRUE, reply_text |-> ReplyText(workflow, <<>>),
               suggested_workflow |-> workflow]

\* _route_message(text): the if/elif chain of lines 125-173.
_route_message(text) ==
    IF AnyKeyword(text, masumi_keywords)
    THEN Decision("masumi_network", text)
    ELSE IF AnyKeyword(text, finance_keywords)
    THEN Decision("finance_agent", text)
    ELSE IF AnyKeyword(text, web_keywords)
    THEN Decision("web_agent", text)
    ELSE IF AnyKeyword(text, help_keywords)
    THEN Decision("help", text)
    ELSE Decision("general_response", text)

ClassifyAsGiven(text) == _route_message(text)

\* handle_telegram_update lower-cases the text and hands it to the router.
Classify(text) == _route_message(Lower(text))

\* The words the texts of the router's inputs are made of.
Vocabulary ==
    << <<"M", "a", "s", "u", "m", "i">>,
       <<"h", "i", "r", "e">>,
       <<" ">>,
       <<"A", "G", "E", "N", "T">>,
       <<"F", "i", "n", "d">>,
       <<"i", "n", "f", "o", "r", "m", "a", "t", "i", "o", "n">>,
       <<"S", "t", "o", "c", "k">>,
       <<"p", "r", "i", "c", "e">>,
       <<"S", "e", "a", "r", "c", "h">>,
       <<"T", "h", "i", "s">>,
       <<"H", "e", "l", "l", "o">>,
       <<"o", "k">> >>

MaxWords == 3

RECURSIVE Flatten(_)
Flatten(words) ==
    IF words = <<>> THEN <<>> ELSE Head(words) \o Flatten(Tail(words))

\* "Masumi stock price"
TEXT_MASUMI ==
    <<"M", "a", "s", "u", "m", "i", " ", "s", "t", "o", "c", "k", " ", "p", "r", "i", "c", "e">>

Texts ==
    { Flatten([i \in 1..n |-> Vocabulary[f[i]]]) :
        n \in 0..MaxWords, f \in [1..MaxWords -> 1..Len(Vocabulary)] }
    \cup {TEXT_MASUMI}


\* ------------------------------------------------- TelegramOrchestrator
Handlers == {"h1", "h2"}

\* message.get("text", "").lower() at the head of handle_telegram_update:
\* ok is FALSE when message is not a dict or text is not a string.
HandlerText(update) ==
    LET message == Get(update, "message", JDict(<<>>)) IN
    IF message.t # "dict" THEN [ok |-> FALSE]
    ELSE LET text == Get(message.d, "text", JText(<<>>)) IN
         IF text.t # "text" THEN [ok |-> FALSE]
         ELSE [ok |-> TRUE, text |-> Lower(text.chars)]

Request(pc, receive_result, route_decision, result) ==
    [pc |-> pc, receive_result |-> receive_result,
     route_decision |-> route_decision, result |-> result]

NoRequest == Request("idle", <<>>, <<>>, <<>>)

RequestRaised(exception) ==
    Request("idle", <<>>, <<>>, <<[raised |-> exception]>>)

TelegramReply(receive_result, reply_result, route_decision) ==
    [operation |-> "telegram_reply", receive_result |-> receive_result,
     reply_result |-> reply_result, route_decision |-> route_decision]

TelegramReceived(receive_result, route_decision) ==
    [operation |-> "telegram_received", receive_result |-> receive_result,
     route_decision |-> route_decision]

AdminMessage(result) == [operation |-> "admin_message", result |-> result]

\* handle_telegram_update, lines 74-81: the text, the inbound receipt and the
\* routing decision.
handle_telegram_update(h, update) ==
    /\ handler[h].pc = "idle"
    /\ Idle
    /\ LET t == HandlerText(update) IN
       IF ~t.ok
       THEN /\ handler' = [handler EXCEPT ![h] = RequestRaised("AttributeError")]
            /\ UNCHANGED gateway
       ELSE /\ handle_incoming_message(update, h)
            /\ handler' =
                 [handler EXCEPT ![h] =
                    IF call'.state = "raised"
                    THEN RequestRaised(call'.value.exception)
                    ELSE Request("received", <<call'.value>>,
                                 <<_route_message(t.text)>>, <<>>)]
    /\ UNCHANGED <<router, ledger, services>>

\* handle_telegram_update, lines 83-101: the reply, when the decision asks
\* for one.
handle_telegram_update_reply(h) ==
    /\ handler[h].pc = "received"
    /\ LET r == handler[h].receive_result[1]
           d == handler[h].route_decision[1] IN
       IF d.requires_reply
       THEN /\ send_reply(d.reply_text, h)
            /\ handler' =
                 [handler EXCEPT ![h] =
                    IF call'.state = "running"
                    THEN [@ EXCEPT !.pc = "replying"]
                    ELSE Request("idle", <<>>, <<>>,
                                 <<TelegramReply(r, call'.value, d)>>)]
       ELSE /\ Idle
            /\ handler' = [handler EXCEPT ![h] =
                             Request("idle", <<>>, <<>>, <<TelegramReceived(r, d)>>)]
            /\ UNCHANGED gateway
    /\ UNCHANGED <<router, ledger, services>>

\* TelegramOrchestrator.send_admin_message, line 187.
orchestrator_send_admin_message(h, chat_id, message) ==
    /\ handler[h].pc = "idle"
    /\ send_admin_message(chat_id, message, h)
    /\ handler' = [handler EXCEPT ![h] = Request("sending", <<>>, <<>>, <<>>)]
    /\ UNCHANGED <<router, ledger, services>>

\* The request that made the call gets what the call returned.
Resume(hs, c) ==
    IF c.caller \notin Handlers THEN hs
    ELSE [hs EXCEPT ![c.caller] =
            IF c.state = "raised" THEN RequestRaised(c.value.exception)
            ELSE IF c.op = "send_reply"
            THEN Request("idle", <<>>, <<>>,
                         <<TelegramReply(@.receive_result[1], c.value,
                                         @.route_decision[1])>>)
            ELSE Request("idle", <<>>, <<>>, <<AdminMessage(c.value)>>)]

\* ------------------------------------------------------------ the inputs
Updates ==
    << [message |-> JDict([chat |-> JDict([id |-> JInt(42)]),
                           from |-> JDict([id |-> JInt(1001)]),
                           text |-> JText(TEXT_MASUMI)])],
       [message |-> JDict([chat |-> JDict([id |-> JStr("42")]),
                           from |-> JDict([id |-> JInt(1001)]),
                           text |-> JText(<<"h", "i">>)])],
       [message |-> JDict([chat |-> JDict([id |-> JInt(7)]),
                           text |-> JText(<<"o", "k">>)])],
       <<>>,
       [message |-> JDict([chat |-> JDict(<<>>), from |-> JDict(<<>>)])],
       [message |-> JNull],
       [message |-> JDict([chat |-> JDict([id |-> JNull]),
                           from |-> JDict([id |-> JInt(1001)]),
                           text |-> JNull])],
       [message |-> JDict([chat |-> JNull, text |-> JText(<<"h", "i">>)])] >>

AdminChatIds == {"99", "42"}
DirectTexts == {ReplyText("hello", <<>>), ReplyText("bye", <<>>)}

\* ------------------------------------------------- the Workflow Ledger
\* AgentOrchestrator (src/agents/orchestrator.py, lines 176-407).

\* The clock: datetime.now() has sub-second resolution; the model's clock
\* counts ticks, TicksPerSecond of them to the second.
TicksPerSecond == 2
MaxClock == 3
MaxCreates == 3
MaxTasks == 1

WorkflowNames == {"job", "etl"}

\* datetime.strftime('%Y%m%d_%H%M%S'): the time to the second.
Strftime(t) == ToString(t \div TicksPerSecond)

\* line 258: f"{workflow_name}_{datetime.now().strftime('%Y%m%d_%H%M%S')}"
WorkflowId(workflow_name, t) == workflow_name \o "_" \o Strftime(t)

\* The ids a caller may ask for: every id create_workflow can produce and
\* one it never produces.
RunIds ==
    {WorkflowId(name, t) : name \in WorkflowNames, t \in 0..MaxClock}
        \cup {"nonexistent"}

\* The dataclass OrchestrationResult, lines 42-53.
OrchestrationResult(workflow_id, status, start_time) ==
    [workflow_id |-> workflow_id, status |-> status,
     steps_completed |-> <<>>, steps_failed |-> <<>>, results |-> <<>>,
     start_time |-> start_time, end_time |-> <<>>, error_message |-> PyNone]

\* A Python dict keeps its items in insertion order: a sequence of items
\* with distinct keys.
Keys(d) == {d[i].key : i \in 1..Len(d)}

Index(d, key) == CHOOSE i \in 1..Len(d) : d[i].key = key

\* d.get(key)
DictGet(d, key) == IF key \in Keys(d) THEN <<d[Index(d, key)].value>> ELSE <<>>

DictAppend(d, key, value) == Append(d, [key |-> key, value |-> value])

\* d[key] = value: a new key goes last, a known key keeps its place.
DictSet(d, key, value) ==
    IF key \in Keys(d)
    THEN [d EXCEPT ![Index(d, key)].value = value]
    ELSE Append(d, [key |-> key, value |-> value])

\* list(d.values())
DictValues(d) == [i \in 1..Len(d) |-> d[i].value]

\* The outcome of a Ledger operation or of an HTTP request.
LedgerReturned(op, caller, args, value) ==
    [op |-> op, caller |-> caller, args |-> args, exception |-> PyNone,
     value |-> value]

LedgerRaised(op, caller, args, exception) ==
    [op |-> op, caller |-> caller, args |-> args, exception |-> exception,
     value |-> [raised |-> exception]]

LedgerRunning(op, caller, args) ==
    [op |-> op, caller |-> caller, args |-> args, exception |-> PyNone,
     value |-> [running |-> TRUE]]

LedgerInit ==
    /\ active_workflows = <<>>
    /\ now = 0
    /\ ledger_call = LedgerReturned("__init__", "direct",
                                    [model_id |-> "gpt-4.1-mini"],
                                    [returned |-> PyNone])
    /\ background_tasks = <<>>
    /\ created_ids = <<>>

\* create_workflow(workflow_name, steps, mode), lines 244-270: steps and
\* mode are not stored.
create_workflow(workflow_name, steps, mode, caller) ==
    /\ Len(created_ids) < MaxCreates
    /\ LET workflow_id == WorkflowId(workflow_name, now)
           result == OrchestrationResult(workflow_id, "created", now)
       IN /\ active_workflows' = DictSet(active_workflows, workflow_id, result)
          /\ ledger_call' = LedgerReturned("create_workflow", caller,
                                           [workflow_name |-> workflow_name,
                                            steps |-> steps, mode |-> mode],
                                           [workflow_id |-> workflow_id])
          /\ created_ids' = Append(created_ids, workflow_id)
    /\ UNCHANGED <<now, background_tasks>>

\* lines 285-286: workflow.status = "running"
ExecuteBegin(d, workflow_id) ==
    DictSet(d, workflow_id,
            [DictGet(d, workflow_id)[1] EXCEPT !.status = "running"])

ExecuteEndStillRunning(d, workflow_id, t) ==
    DictSet(d, workflow_id,
            [DictGet(d, workflow_id)[1] EXCEPT !.end_time = <<t>>])

ExecuteEndFailed(d, workflow_id, t) ==
    DictSet(d, workflow_id,
            [DictGet(d, workflow_id)[1] EXCEPT
                !.status = "failed", !.end_time = <<t>>,
                !.steps_failed = <<workflow_id>>,
                !.error_message = "step failed"])

\* lines 290-291: workflow.status = "completed"; workflow.end_time = now()
ExecuteEnd(d, workflow_id, t) ==
    DictSet(d, workflow_id,
            [DictGet(d, workflow_id)[1] EXCEPT !.status = "completed",
                                               !.end_time = <<t>>])

ExecuteOutcomeSetDefault(d, workflow_id, t) ==
    LET known == DictSet(d, workflow_id,
                         OrchestrationResult(workflow_id, "created", t))
    IN [exception |-> PyNone,
        table |-> ExecuteEnd(ExecuteBegin(IF workflow_id \in Keys(d)
                                          THEN d ELSE known, workflow_id),
                             workflow_id, t)]

\* execute_workflow(workflow_id), lines 272-293, run to its end: the
\* exception it raises, if any, and the table it leaves.
ExecuteOutcome(d, workflow_id, t) ==
    IF workflow_id \notin Keys(d)
    THEN [exception |-> "ValueError", table |-> d]
    ELSE [exception |-> PyNone,
          table |-> ExecuteEnd(ExecuteBegin(d, workflow_id), workflow_id, t)]

execute_workflow(workflow_id, caller) ==
    LET outcome == ExecuteOutcome(active_workflows, workflow_id, now)
        args == [workflow_id |-> workflow_id]
    IN /\ active_workflows' = outcome.table
       /\ ledger_call' =
             IF outcome.exception # PyNone
             THEN LedgerRaised("execute_workflow", caller, args,
                               outcome.exception)
             ELSE LedgerReturned("execute_workflow", caller, args,
                     [workflow |-> DictGet(outcome.table, workflow_id)[1]])
       /\ UNCHANGED <<now, background_tasks, created_ids>>

\* get_workflow_status(workflow_id), lines 388-398
WorkflowStatus(d, workflow_id) == DictGet(d, workflow_id)

get_workflow_status(workflow_id, caller) ==
    /\ ledger_call' = LedgerReturned("get_workflow_status", caller,
                         [workflow_id |-> workflow_id],
                         [optional |-> WorkflowStatus(active_workflows,
                                                      workflow_id)])
    /\ UNCHANGED <<active_workflows, now, background_tasks, created_ids>>

\* list_active_workflows(), lines 400-407
ListActive(d) == DictValues(d)

list_active_workflows(caller) ==
    /\ ledger_call' = LedgerReturned("list_active_workflows", caller,
                         [none |-> PyNone],
                         [workflows |-> ListActive(active_workflows)])
    /\ UNCHANGED <<active_workflows, now, background_tasks, created_ids>>

\* ------------------------------------- the HTTP routes of the Ledger
\* src/api/routes/orchestration.py

HttpResponse(status_code, body) == [status_code |-> status_code, body |-> body]

\* POST /v1/workflow/{workflow_id}/execute, lines 199-224: the execution
\* is handed to BackgroundTasks and the answer is returned at once.
execute_workflow_route(workflow_id) ==
    /\ Len(background_tasks) < MaxTasks
    /\ background_tasks' =
          Append(background_tasks, [workflow_id |-> workflow_id, pc |-> "queued",
                                    object |-> 0, workflow |-> <<>>])
    /\ ledger_call' = LedgerReturned("POST /workflow/{workflow_id}/execute", "http",
          [workflow_id |-> workflow_id],
          HttpResponse(200, [success |-> TRUE, workflow_id |-> workflow_id,
                             message |-> "Workflow execution started",
                             status |-> "running"]))
    /\ UNCHANGED <<active_workflows, now, created_ids>>

Remove(tasks, i) == [j \in 1..(Len(tasks) - 1) |-> IF j < i THEN tasks[j] ELSE tasks[j + 1]]

\* The object stored under workflow_id: each create_workflow builds a new
\* OrchestrationResult, so the object is known by the call that built it,
\* the last create_workflow that returned workflow_id.
ObjectOf(created, workflow_id) ==
    CHOOSE c \in 1..Len(created) :
        /\ created[c] = workflow_id
        /\ \A later \in (c + 1)..Len(created) : created[later] # workflow_id

\* A background task runs orchestrator.execute_workflow in a worker thread
\* after the response has gone out: lines 282-286, where it takes the
\* object stored under workflow_id and keeps working on that object ...
background_execute_begin(i) ==
    LET workflow_id == background_tasks[i].workflow_id
        args == [workflow_id |-> workflow_id]
    IN /\ background_tasks[i].pc = "queued"
       /\ IF workflow_id \notin Keys(active_workflows)
          THEN /\ ledger_call' = LedgerRaised("execute_workflow", "background",
                                              args, "ValueError")
               /\ background_tasks' = Remove(background_tasks, i)
               /\ UNCHANGED active_workflows
          ELSE /\ ledger_call' = LedgerRunning("execute_workflow", "background", args)
               /\ active_workflows' = ExecuteBegin(active_workflows, workflow_id)
               /\ background_tasks' =
                     [background_tasks EXCEPT
                         ![i].pc = "running",
                         ![i].object = ObjectOf(created_ids, workflow_id),
                         ![i].workflow = DictGet(active_workflows', workflow_id)]
       /\ UNCHANGED <<now, created_ids>>

\* the object the task works on is still the one stored under its id
StillStored(created, task) == ObjectOf(created, task.workflow_id) = task.object

\* ... and lines 290-293: the object is completed; the table shows it only
\* when no later create_workflow has put another object under the id.
background_execute_end(i) ==
    LET workflow_id == background_tasks[i].workflow_id IN
    /\ background_tasks[i].pc = "running"
    /\ active_workflows' =
          IF StillStored(created_ids, background_tasks[i])
          THEN ExecuteEnd(active_workflows, workflow_id, now)
          ELSE active_workflows
    /\ ledger_call' = LedgerReturned("execute_workflow", "background",
          [workflow_id |-> workflow_id],
          [workflow |-> [background_tasks[i].workflow[1] EXCEPT
                            !.status = "completed", !.end_time = <<now>>]])
    /\ background_tasks' = Remove(background_tasks, i)
    /\ UNCHANGED <<now, created_ids>>

StatusRouteCatchAll(result) ==
    IF result = <<>>
    THEN HttpResponse(500, [detail |-> "404: Workflow not found"])
    ELSE HttpResponse(200, [workflow |-> result[1]])

\* GET /v1/workflow/{workflow_id}/status, lines 229-258: the answer for
\* what orchestrator.get_workflow_status returned.
StatusRoute(result) ==
    IF result = <<>>
    THEN HttpResponse(404, [detail |-> "Workflow not found"])
    ELSE HttpResponse(200, [workflow |-> result[1]])

get_workflow_status_route(workflow_id) ==
    /\ ledger_call' = LedgerReturned("GET /workflow/{workflow_id}/status", "http",
          [workflow_id |-> workflow_id],
          StatusRoute(WorkflowStatus(active_workflows, workflow_id)))
    /\ UNCHANGED <<active_workflows, now, background_tasks, created_ids>>

\* The steps a create is called with (WorkflowStep, lines 31-39) and the
\* modes (OrchestrationMode, lines 22-28).
StepLists ==
    { <<>>,
      << [agent_type |-> "web", task_description |-> "look it up",
          depends_on |-> <<"fetch">>, condition |-> "if found",
          timeout_seconds |-> 300] >> }

OrchestrationModes == {"sequential", "parallel", "conditional", "interactive"}

\* ------------------------------------------- the Coordination Facade
\* AgentOrchestrator.coordinate_masumi_search and
\* coordinate_financial_analysis (src/agents/orchestrator.py, lines 307-386)
\* and their routes (src/api/routes/orchestration.py, lines 121-157).

\* line 324: "more information needed"
TRIGGER_PHRASE ==
    <<"m", "o", "r", "e", " ", "i", "n", "f", "o", "r", "m", "a", "t", "i", "o", "n",
      " ", "n", "e", "e", "d", "e", "d">>

\* What a member's run() gives back: a response whose content is a text or
\* None, or an exception.
MemberReturns(content) == [raised |-> FALSE, content |-> content]
MemberRaises(error) == [raised |-> TRUE, error |-> error]

\* The contents the members answer with: "3 agents", "More Information
\* Needed", "more information needed", "ok" and None.
Contents ==
    { <<>>,
      << <<"3", " ", "a", "g", "e", "n", "t", "s">> >>,
      << <<"M", "o", "r", "e", " ", "I", "n", "f", "o", "r", "m", "a", "t", "i", "o", "n",
           " ", "N", "e", "e", "d", "e", "d">> >>,
      << TRIGGER_PHRASE >>,
      << <<"o", "k">> >> }

RunErrors == {"backend down", "model timeout"}

RunOutcomes ==
    {MemberReturns(content) : content \in Contents}
        \cup {MemberRaises(error) : error \in RunErrors}

Queries == {"solidity auditors", "TON price"}

\* An f-string: the template and the values formatted into it.
Prompt(template, values) == [template |-> template, values |-> values]

NoCoordination ==
    [pc |-> "idle", op |-> PyNone, caller |-> PyNone, query |-> PyNone,
     include_web_research |-> FALSE, calls |-> <<>>, first |-> <<>>,
     second |-> <<>>, raised |-> <<>>, result |-> <<>>, response |-> <<>>]

NoCall == [op |-> PyNone]

ServicesInit ==
    /\ facade = NoCoordination
    /\ wrapper_call = NoCall
    /\ registry_call = NoCall
    /\ tool_call = NoCall

\* The members called first and second, and the prompts they are given.
FirstAgent(op) ==
    IF op = "coordinate_masumi_search" THEN "masumi_agent" ELSE "finance_agent"

\* lines 320 and 358
FirstPrompt(op, query) ==
    IF op = "coordinate_masumi_search"
    THEN Prompt("Search for agents related to: {query}", <<query>>)
    ELSE Prompt("{query}", <<query>>)

\* lines 325 and 364
SecondPrompt(op, query) ==
    IF op = "coordinate_masumi_search"
    THEN Prompt("Research information about: {query}", <<query>>)
    ELSE Prompt("Latest news and analysis about: {query}", <<query>>)

\* lines 329 and 368-372
CombinedPrompt(op, first_content, second_content) ==
    IF op = "coordinate_masumi_search"
    THEN Prompt("Based on Masumi results: {masumi}\nAnd web research: {web}",
                <<first_content, second_content>>)
    ELSE Prompt("Combine this financial data: {finance}\nWith this market context: {web}",
                <<first_content, second_content>>)

\* The route's answer for the dict the facade returned, lines 132-134 and
\* 152-156.
CoordinationResponse(result) ==
    HttpResponse(200, [success |-> result.success, result |-> result])

\* The call returns result to its caller.
Finish(f, result) ==
    [f EXCEPT !.pc = "done", !.result = <<result>>,
              !.response = IF f.caller = "http"
                           THEN <<CoordinationResponse(result)>> ELSE <<>>]

\* lines 342-343 and 385-386: except Exception as e
Failed(op, error) ==
    [workflow |-> IF op = "coordinate_masumi_search"
                  THEN "masumi_search_failed" ELSE "financial_analysis_failed",
     error |-> error, success |-> FALSE]

Called(f, agent, prompt) ==
    [f EXCEPT !.calls = Append(f.calls, [agent |-> agent, prompt |-> prompt])]

\* An exception is raised inside the try block, after Len(f.calls) calls.
Raise(f, error) ==
    [f EXCEPT !.raised = <<[error |-> error, after |-> Len(f.calls)]>>]

\* The except clause catches it and the call returns the failure dict.
Caught(f, error) == Finish(Raise(f, error), Failed(f.op, error))

\* "more information needed" in masumi_response.content.lower(), line 324
NeedsWebAlways(content) == TRUE

NeedsWebAsGiven(content) == Contains(content, TRIGGER_PHRASE)

NeedsWeb(content) == Contains(Lower(content), TRIGGER_PHRASE)

\* The call starts: the first member is about to run.
coordinate_start(op, caller, query, include_web_research) ==
    /\ facade.pc \in {"idle", "done"}
    /\ facade' = [NoCoordination EXCEPT !.pc = "first", !.op = op,
                     !.caller = caller, !.query = query,
                     !.include_web_research = include_web_research]

\* lines 321-340 and 358-361: the first member has run.
first_run(outcome) ==
    LET f == Called(facade, FirstAgent(facade.op),
                    FirstPrompt(facade.op, facade.query))
    IN
    /\ facade.pc = "first"
    /\ facade' =
          IF outcome.raised
          THEN Caught(f, outcome.error)
          ELSE IF f.op = "coordinate_masumi_search"
          THEN IF outcome.content = <<>>
               THEN Caught([f EXCEPT !.first = <<outcome.content>>],
                           "'NoneType' object has no attribute 'lower'")
               ELSE IF NeedsWeb(outcome.content[1])
               THEN [f EXCEPT !.pc = "second", !.first = <<outcome.content>>]
               ELSE Finish([f EXCEPT !.first = <<outcome.content>>],
                           [workflow |-> "masumi_only",
                            masumi_result |-> outcome.content,
                            success |-> TRUE])
          ELSE IF f.include_web_research
               THEN [f EXCEPT !.pc = "second", !.first = <<outcome.content>>]
               ELSE Finish([f EXCEPT !.first = <<outcome.content>>],
                           [workflow |-> "financial_analysis",
                            finance_result |-> outcome.content,
                            success |-> TRUE])

SecondRaisedContinues(f, error) ==
    [Raise(f, error) EXCEPT !.pc = "synthesis", !.second = <<<<>>>>]

\* The second member raised: the except clause answers.
SecondRaised(f, error) == Caught(f, error)

\* lines 326 and 365: the web agent has run.
second_run(outcome) ==
    LET f == Called(facade, "web_agent", SecondPrompt(facade.op, facade.query))
    IN
    /\ facade.pc = "second"
    /\ facade' =
          IF outcome.raised
          THEN SecondRaised(f, outcome.error)
          ELSE [f EXCEPT !.pc = "synthesis", !.second = <<outcome.content>>]

\* lines 330-338 and 373-383: self.run(combined_prompt) has run.
synthesis_run(outcome) ==
    LET f == Called(facade, "self",
                    CombinedPrompt(facade.op, facade.first[1], facade.second[1]))
    IN
    /\ facade.pc = "synthesis"
    /\ facade' =
          IF outcome.raised
          THEN Caught(f, outcome.error)
          ELSE IF f.op = "coordinate_masumi_search"
          THEN Finish(f, [workflow |-> "masumi_with_web_research",
                          masumi_result |-> f.first[1],
                          web_result |-> f.second[1],
                          combined_result |-> outcome.content,
                          success |-> TRUE])
          ELSE Finish(f, [workflow |-> "financial_analysis_with_research",
                          finance_result |-> f.first[1],
                          web_result |-> f.second[1],
                          combined_result |-> outcome.content,
                          success |-> TRUE])

\* --------------------------------------- the OrchestratorAgentWrapper
\* src/agents/orchestrator_wrapper.py

\* The response object of lines 133-137 and 184-188.
SimpleResponse(content) == [class |-> "SimpleResponse", content |-> content]

\* f"I'm having trouble coordinating the agents right now. Error: {str(e)}"
Apology(error) ==
    [template |-> "I'm having trouble coordinating the agents right now. Error: {error}",
     error |-> error]

\* lines 109-125 and 162-178: hasattr(self._orchestrator, 'run') chooses
\* the orchestrator's own run, else the parent Agent's method.
Delegate(method, has_run) ==
    IF has_run
    THEN "AgentOrchestrator.run"
    ELSE IF method = "arun" THEN "Agent.arun" ELSE "Agent.run"

\* The arguments handed over: the orchestrator's run takes message and
\* stream only.
DelegateArgs(has_run, message, stream, user_id) ==
    IF has_run
    THEN [message |-> message, stream |-> stream]
    ELSE [message |-> message, stream |-> stream, user_id |-> user_id]

WrapperPropagates(outcome) ==
    IF outcome.raised
    THEN [raised |-> TRUE, error |-> outcome.error]
    ELSE [raised |-> FALSE, value |-> [class |-> "RunResponse", content |-> outcome.content]]

\* try: return <delegate>(...)  except Exception as e: return SimpleResponse(...)
WrapperOutcome(outcome) ==
    IF outcome.raised
    THEN [raised |-> FALSE, value |-> SimpleResponse(Apology(outcome.error))]
    ELSE [raised |-> FALSE, value |-> [class |-> "RunResponse", content |-> outcome.content]]

\* run(message, stream, user_id, ...) and arun(...), lines 87-190
wrapper_run(method, has_run, message, stream, user_id, outcome) ==
    wrapper_call' =
        [op |-> method, has_run |-> has_run,
         delegate |-> Delegate(method, has_run),
         delegate_args |-> DelegateArgs(has_run, message, stream, user_id),
         delegate_outcome |-> outcome,
         outcome |-> WrapperOutcome(outcome)]

Messages == {<<>>, <<"find me an auditor">>}
Streams == {<<>>, <<TRUE>>, <<FALSE>>}
UserIds == {<<>>, <<"u1">>}

\* ------------------------------------------------ the capability registry
\* src/agents/selector.py

\* class AgentType(Enum), lines 14-22: the values of its members.
AgentType ==
    <<"web_agent", "agno_assist", "finance_agent", "telegram_agent",
      "simple_telegram_agent", "masumi_agent", "telegram_mcp_agent",
      "orchestrator">>

\* A member of AgentType; a plain string or None is not equal to any member.
Member(value) == [class |-> "AgentType", value |-> value]
PlainStr(value) == [class |-> "str", value |-> value]
NoAgentId == [class |-> "NoneType", value |-> PyNone]

AgentIds ==
    {Member(AgentType[i]) : i \in 1..Len(AgentType)}
        \cup {NoAgentId, PlainStr("web_agent"), PlainStr("planner")}

FactoryWithoutMcp(agent_id) ==
    IF agent_id = Member("web_agent") THEN "get_web_agent"
    ELSE IF agent_id = Member("agno_assist") THEN "get_agno_assist"
    ELSE IF agent_id = Member("finance_agent") THEN "get_finance_agent"
    ELSE IF agent_id = Member("telegram_agent") THEN "get_telegram_agent"
    ELSE IF agent_id = Member("simple_telegram_agent") THEN "get_simple_telegram_agent"
    ELSE IF agent_id = Member("masumi_agent") THEN "get_masumi_agent"
    ELSE IF agent_id = Member("orchestrator") THEN "get_agent_orchestrator"
    ELSE PyNone

\* The if/elif chain of lines 37-54: the factory a branch calls, None when
\* no branch is taken.
Factory(agent_id) ==
    IF agent_id = Member("web_agent") THEN "get_web_agent"
    ELSE IF agent_id = Member("agno_assist") THEN "get_agno_assist"
    ELSE IF agent_id = Member("finance_agent") THEN "get_finance_agent"
    ELSE IF agent_id = Member("telegram_agent") THEN "get_telegram_agent"
    ELSE IF agent_id = Member("simple_telegram_agent") THEN "get_simple_telegram_agent"
    ELSE IF agent_id = Member("masumi_agent") THEN "get_masumi_agent"
    ELSE IF agent_id = Member("telegram_mcp_agent") THEN "get_telegram_mcp_agent"
    ELSE IF agent_id = Member("orchestrator") THEN "get_agent_orchestrator"
    ELSE PyNone

\* What the factory is called with: get_agent_orchestrator takes the model
\* only (line 54).
Instance(factory, model_id, user_id, session_id, debug_mode) ==
    IF factory = "get_agent_orchestrator"
    THEN [factory |-> factory, model_id |-> model_id]
    ELSE [factory |-> factory, model_id |-> model_id, user_id |-> user_id,
          session_id |-> session_id, debug_mode |-> debug_mode]

\* get_agent(model_id, agent_id, user_id, session_id, debug_mode), lines 30-56
get_agent(model_id, agent_id, user_id, session_id, debug_mode) ==
    registry_call' =
        [op |-> "get_agent",
         args |-> [model_id |-> model_id, agent_id |-> agent_id, user_id |-> user_id,
                   session_id |-> session_id, debug_mode |-> debug_mode],
         exception |-> IF Factory(agent_id) = PyNone THEN "ValueError" ELSE PyNone,
         value |-> IF Factory(agent_id) = PyNone
                   THEN <<>>
                   ELSE <<Instance(Factory(agent_id), model_id, user_id,
                                   session_id, debug_mode)>>]

ModelIds == {"gpt-4.1", "gpt-4.1-mini"}
SessionIds == {<<>>, <<"s1">>}

\* -------------------------------------------------------- the tool functions
\* MasumiTools (src/agents/masumi_tools.py), SimpleTelegramTools
\* (src/agents/simple_telegram_agent.py, lines 28-71) and TelegramTools
\* (src/agents/telegram_agent.py, lines 17-47).

\* What a tool function gives back: a string, or an exception.
ToolReturns(content, is_error) ==
    [raised |-> FALSE, content |-> content, is_error |-> is_error]
ToolRaises(exception) == [raised |-> TRUE, exception |-> exception]

\* The methods of MasumiTools that call a backend themselves, with the
\* service they call and the prefix of their error string.
MasumiMethods ==
    [list_agents |-> [service |-> "registry", prefix |-> "Error listing agents: "],
     get_agent_input_schema |->
         [service |-> "registry", prefix |-> "Error getting agent input schema: "],
     hire_agent |-> [service |-> "payment", prefix |-> "Error hiring agent: "],
     check_job_status |->
         [service |-> "payment", prefix |-> "Error checking job status: "],
     get_job_full_result |->
         [service |-> "payment", prefix |-> "Error getting full job result: "],
     query_payments |-> [service |-> "payment", prefix |-> "Error querying payments: "],
     register_agent |-> [service |-> "payment", prefix |-> "Error registering agent: "],
     unregister_agent |->
         [service |-> "payment", prefix |-> "Error unregistering agent: "],
     get_agents_by_wallet |->
         [service |-> "registry", prefix |-> "Error getting agents by wallet: "]]

\* The failures of a backend call: response.raise_for_status() or the
\* connection itself raises.
BackendErrors == {"503 Service Unavailable", "connection refused"}
Backends == {"ok"} \cup BackendErrors

\* The environment: which base URL and tokens are configured.
Environments ==
    [registry_base_url : BOOLEAN, payment_base_url : BOOLEAN,
     masumi_token : BOOLEAN, telegram_token : BOOLEAN]

BaseUrlSet(env, service) ==
    IF service = "registry" THEN env.registry_base_url ELSE env.payment_base_url

\* "if not self.<service>_base_url: return ..." (lines 65-66, 145-146, ...)
NotConfigured(service) ==
    IF service = "registry"
    THEN ToolReturns("Error: MASUMI_REGISTRY_BASE_URL not configured", TRUE)
    ELSE ToolReturns("Error: MASUMI_PAYMENT_BASE_URL not configured", TRUE)

\* The try block of a method: _get_headers raises ValueError without a
\* token (lines 49-50), the backend call may raise, and "except Exception
\* as e" returns the prefixed error string.
MasumiTry(method, env, backend) ==
    IF ~env.masumi_token
    THEN ToolReturns(MasumiMethods[method].prefix \o "Missing token for "
                        \o MasumiMethods[method].service \o " service", TRUE)
    ELSE IF backend # "ok"
    THEN ToolReturns(MasumiMethods[method].prefix \o backend, TRUE)
    ELSE ToolReturns(method \o " result", FALSE)

MasumiDirect(method, env, backend) ==
    IF ~BaseUrlSet(env, MasumiMethods[method].service)
    THEN NotConfigured(MasumiMethods[method].service)
    ELSE MasumiTry(method, env, backend)

\* A method of MasumiTools: get_job_full_result (lines 230-268) asks
\* check_job_status first and returns its answer when that holds "Error";
\* get_purchase_history and query_registry (lines 316-335) hand over to
\* query_payments and list_agents.
MasumiCall(method, env, backend, backend2) ==
    IF method = "get_job_full_result"
    THEN IF MasumiDirect("check_job_status", env, backend).is_error
         THEN MasumiDirect("check_job_status", env, backend)
         ELSE MasumiTry(method, env, backend2)
    ELSE IF method = "get_purchase_history"
    THEN MasumiDirect("query_payments", env, backend)
    ELSE IF method = "query_registry"
    THEN MasumiDirect("list_agents", env, backend)
    ELSE MasumiDirect(method, env, backend)

\* SimpleTelegramTools.send_message, simple_telegram_agent.py lines 35-58
SimpleSendMessage(env, backend) ==
    IF ~env.telegram_token
    THEN ToolReturns("Error: TELEGRAM_BOT_TOKEN environment variable not set", TRUE)
    ELSE IF backend # "ok"
    THEN ToolReturns("Failed to send message: " \o backend, TRUE)
    ELSE ToolReturns("Message sent successfully to chat", FALSE)

\* TelegramTools.send_message, telegram_agent.py lines 22-47: no try block.
TelegramSendMessage(env, backend) ==
    IF ~env.telegram_token
    THEN ToolRaises("ValueError: TELEGRAM_BOT_TOKEN environment variable not set")
    ELSE IF backend # "ok"
    THEN ToolRaises(backend)
    ELSE ToolReturns("Message sent successfully", FALSE)

MasumiTools ==
    DOMAIN MasumiMethods \cup {"get_purchase_history", "query_registry"}

masumi_tool(method, env, backend, backend2) ==
    tool_call' = [op |-> method, toolkit |-> "MasumiTools", env |-> env,
                  backend |-> <<backend, backend2>>,
                  outcome |-> MasumiCall(method, env, backend, backend2)]

\* send_message and admin_send_message (lines 60-71, which hands over to
\* send_message) of SimpleTelegramTools.
simple_telegram_tool(method, env, backend) ==
    tool_call' = [op |-> method, toolkit |-> "SimpleTelegramTools", env |-> env,
                  backend |-> <<backend>>,
                  outcome |-> SimpleSendMessage(env, backend)]

telegram_tool(env, backend) ==
    tool_call' = [op |-> "send_message", toolkit |-> "TelegramTools", env |-> env,
                  backend |-> <<backend>>,
                  outcome |-> TelegramSendMessage(env, backend)]

\* ------------------------------------------------------ the specifications
Init ==
    /\ current_context = <<>>
    /\ interaction_mode = "playground"
    /\ call = Returned("__init__", "direct", [model_id |-> "gpt-4.1-mini"],
                       [returned |-> PyNone])
    /\ hist = [last_inbound |-> PyNone, reply_since |-> "none"]
    /\ handler = [h \in Handlers |-> NoRequest]
    /\ route_input = <<>>
    /\ route_output = <<>>
    /\ LedgerInit
    /\ ServicesInit

DirectReceive ==
    /\ \E i \in 1..Len(Updates) : handle_incoming_message(Updates[i], "direct")
    /\ UNCHANGED <<handler, router, ledger, services>>

DirectReply ==
    /\ \E text \in DirectTexts : send_reply(text, "direct")
    /\ UNCHANGED <<handler, router, ledger, services>>

DirectAdmin ==
    /\ \E chat_id \in AdminChatIds :
          send_admin_message(chat_id, ReplyText("ping", <<>>), "direct")
    /\ UNCHANGED <<handler, router, ledger, services>>

SetMode ==
    /\ \E mode \in Modes : set_interaction_mode(mode)
    /\ UNCHANGED <<handler, router, ledger, services>>

HandlerReceive ==
    \E h \in Handlers, i \in 1..Len(Updates) : handle_telegram_update(h, Updates[i])

HandlerReply ==
    \E h \in Handlers : handle_telegram_update_reply(h)

HandlerAdmin ==
    \E h \in Handlers, chat_id \in AdminChatIds :
        orchestrator_send_admin_message(h, chat_id, ReplyText("ping", <<>>))

ReplyReturns ==
    /\ \E response \in Responses : send_reply_returns(response)
    /\ handler' = Resume(handler, call')
    /\ UNCHANGED <<router, ledger, services>>

AdminReturns ==
    /\ \E response \in Responses : send_admin_message_returns(response)
    /\ handler' = Resume(handler, call')
    /\ UNCHANGED <<router, ledger, services>>

RunRaises ==
    /\ run_raises
    /\ handler' = Resume(handler, call')
    /\ UNCHANGED <<router, ledger, services>>

\* self.run returns or raises inside the call in progress.
RunEnds ==
    \/ ReplyReturns
    \/ AdminReturns
    \/ RunRaises

\* The three operations of the gateway, in any order.
NextOps ==
    \/ DirectReceive
    \/ DirectReply
    \/ DirectAdmin
    \/ RunEnds

\* Every method of the gateway, in any order.
Next ==
    \/ NextOps
    \/ SetMode

Spec == Init /\ [][Next]_vars

\* Without set_interaction_mode.
SpecOps == Init /\ [][NextOps]_vars

\* The requests of the TelegramOrchestrator: each makes its gateway calls in
\* program order, and the calls of two requests interleave.
NextHandlers ==
    \/ HandlerReceive
    \/ HandlerReply
    \/ HandlerAdmin
    \/ RunEnds

SpecHandlers == Init /\ [][NextHandlers]_vars

\* The router alone, on every text of Texts.
InitRouter ==
    /\ current_context = <<>>
    /\ interaction_mode = "playground"
    /\ call = Returned("__init__", "direct", [model_id |-> "gpt-4.1-mini"],
                       [returned |-> PyNone])
    /\ hist = [last_inbound |-> PyNone, reply_since |-> "none"]
    /\ handler = [h \in Handlers |-> NoRequest]
    /\ route_input \in Texts
    /\ route_output = <<>>
    /\ LedgerInit
    /\ ServicesInit

RouteText ==
    /\ route_output = <<>>
    /\ route_output' = <<Classify(route_input)>>
    /\ UNCHANGED <<gateway, handler, route_input, ledger, services>>

SpecRouter == InitRouter /\ [][RouteText]_vars


\* The Ledger called directly.
Tick ==
    /\ now < MaxClock
    /\ now' = now + 1
    /\ UNCHANGED <<gateway, handler, router, active_workflows, ledger_call,
                   background_tasks, created_ids, services>>

LedgerCreate ==
    /\ \E name \in WorkflowNames, steps \in StepLists, mode \in OrchestrationModes :
          create_workflow(name, steps, mode, "direct")
    /\ UNCHANGED <<gateway, handler, router, services>>

LedgerExecute ==
    /\ \E id \in RunIds : execute_workflow(id, "direct")
    /\ UNCHANGED <<gateway, handler, router, services>>

LedgerStatus ==
    /\ \E id \in RunIds : get_workflow_status(id, "direct")
    /\ UNCHANGED <<gateway, handler, router, services>>

LedgerList ==
    /\ list_active_workflows("direct")
    /\ UNCHANGED <<gateway, handler, router, services>>

NextLedger ==
    \/ Tick
    \/ LedgerCreate
    \/ LedgerExecute
    \/ LedgerStatus
    \/ LedgerList

SpecLedger == Init /\ [][NextLedger]_vars

\* The Ledger behind its HTTP routes, for requests that arrive within one
\* tick of the clock.
HttpExecute ==
    /\ \E id \in RunIds : execute_workflow_route(id)
    /\ UNCHANGED <<gateway, handler, router, services>>

HttpStatus ==
    /\ \E id \in RunIds : get_workflow_status_route(id)
    /\ UNCHANGED <<gateway, handler, router, services>>

BackgroundBegin ==
    /\ \E i \in 1..Len(background_tasks) : background_execute_begin(i)
    /\ UNCHANGED <<gateway, handler, router, services>>

BackgroundEnd ==
    /\ \E i \in 1..Len(background_tasks) : background_execute_end(i)
    /\ UNCHANGED <<gateway, handler, router, services>>

NextHttp ==
    \/ LedgerCreate
    \/ LedgerStatus
    \/ HttpExecute
    \/ HttpStatus
    \/ BackgroundBegin
    \/ BackgroundEnd

SpecHttp == Init /\ [][NextHttp]_vars

\* The step of the i-th background task.
TaskBegins(i) ==
    /\ i \in 1..Len(background_tasks)
    /\ background_execute_begin(i)
    /\ UNCHANGED <<gateway, handler, router, services>>

TaskEnds(i) ==
    /\ i \in 1..Len(background_tasks)
    /\ background_execute_end(i)
    /\ UNCHANGED <<gateway, handler, router, services>>

\* The same with the scheduling of the background tasks: every task that
\* is queued is started, and every one that is started runs to its end.
SpecHttpFair ==
    /\ SpecHttp
    /\ \A i \in 1..MaxTasks : WF_vars(TaskBegins(i)) /\ WF_vars(TaskEnds(i))

\* The Coordination Facade: one coordination at a time, called directly or
\* through its route.
FacadeStart ==
    /\ \E op \in {"coordinate_masumi_search", "coordinate_financial_analysis"},
          caller \in {"direct", "http"}, query \in Queries,
          include_web_research \in BOOLEAN :
          coordinate_start(op, caller, query,
              IF op = "coordinate_masumi_search" THEN FALSE ELSE include_web_research)
    /\ UNCHANGED <<gateway, handler, router, ledger, wrapper_call,
                   registry_call, tool_call>>

FacadeFirst ==
    /\ \E outcome \in RunOutcomes : first_run(outcome)
    /\ UNCHANGED <<gateway, handler, router, ledger, wrapper_call,
                   registry_call, tool_call>>

FacadeSecond ==
    /\ \E outcome \in RunOutcomes : second_run(outcome)
    /\ UNCHANGED <<gateway, handler, router, ledger, wrapper_call,
                   registry_call, tool_call>>

FacadeSynthesis ==
    /\ \E outcome \in RunOutcomes : synthesis_run(outcome)
    /\ UNCHANGED <<gateway, handler, router, ledger, wrapper_call,
                   registry_call, tool_call>>

NextFacade ==
    \/ FacadeStart
    \/ FacadeFirst
    \/ FacadeSecond
    \/ FacadeSynthesis

SpecFacade == Init /\ [][NextFacade]_vars

\* The wrapper's run and arun; whether the orchestrator has a run method
\* is decided by the agno library's Team class.
WrapperRun ==
    /\ \E has_run \in BOOLEAN, message \in Messages, stream \in Streams,
          user_id \in UserIds, outcome \in RunOutcomes :
          wrapper_run("run", has_run, message, stream, user_id, outcome)
    /\ UNCHANGED <<gateway, handler, router, ledger, facade, registry_call, tool_call>>

WrapperArun ==
    /\ \E has_run \in BOOLEAN, message \in Messages, stream \in Streams,
          user_id \in UserIds, outcome \in RunOutcomes :
          wrapper_run("arun", has_run, message, stream, user_id, outcome)
    /\ UNCHANGED <<gateway, handler, router, ledger, facade, registry_call, tool_call>>

NextWrapper ==
    \/ WrapperRun
    \/ WrapperArun

SpecWrapper == Init /\ [][NextWrapper]_vars

\* The registry.
GetAgent ==
    /\ \E model_id \in ModelIds, agent_id \in AgentIds, user_id \in UserIds,
          session_id \in SessionIds, debug_mode \in BOOLEAN :
          get_agent(model_id, agent_id, user_id, session_id, debug_mode)
    /\ UNCHANGED <<gateway, handler, router, ledger, facade, wrapper_call, tool_call>>

SpecRegistry == Init /\ [][GetAgent]_vars

\* The tool functions, each called in any environment and with any
\* behaviour of its backend.
MasumiTool ==
    /\ \E method \in MasumiTools, env \in Environments,
          backend \in Backends, backend2 \in Backends :
          masumi_tool(method, env, backend,
                      IF method = "get_job_full_result" THEN backend2 ELSE backend)
    /\ UNCHANGED <<gateway, handler, router, ledger, facade, wrapper_call, registry_call>>

SimpleTelegramTool ==
    /\ \E method \in {"send_message", "admin_send_message"}, env \in Environments,
          backend \in Backends :
          simple_telegram_tool(method, env, backend)
    /\ UNCHANGED <<gateway, handler, router, ledger, facade, wrapper_call, registry_call>>

TelegramTool ==
    /\ \E env \in Environments, backend \in Backends : telegram_tool(env, backend)
    /\ UNCHANGED <<gateway, handler, router, ledger, facade, wrapper_call, registry_call>>

NextTools ==
    \/ MasumiTool
    \/ SimpleTelegramTool
    \/ TelegramTool

SpecTools == Init /\ [][NextTools]_vars

\* ================================================================ properties

\* One request of the TelegramOrchestrator at a time: the gateway is brought
\* into any of its states by its own methods, and a handle_telegram_update
\* then runs from its first line to its return or to the exception that
\* leaves it, with no other call in between.
NoRequestRunning == \A h \in Handlers : handler[h].pc = "idle"

AloneGateway ==
    /\ NoRequestRunning
    /\ Next
    /\ UNCHANGED handler

AloneReceive ==
    /\ NoRequestRunning
    /\ \E i \in 1..Len(Updates) : handle_telegram_update("h1", Updates[i])

AloneReply == handle_telegram_update_reply("h1")

AloneReplyReturns ==
    /\ ~NoRequestRunning
    /\ ReplyReturns

AloneRunRaises ==
    /\ ~NoRequestRunning
    /\ RunRaises

NextAlone ==
    \/ AloneGateway
    \/ AloneReceive
    \/ AloneReply
    \/ AloneReplyReturns
    \/ AloneRunRaises

SpecAlone == Init /\ [][NextAlone]_vars

\* The channel id the gateway holds locked for a reply, PyNone when it holds
\* none.
LockedChannel ==
    IF current_context # <<>> /\ current_context[1].is_reply_to_incoming
    THEN current_context[1].incoming_chat_id
    ELSE PyNone

\* This step is a call of send_reply (the method enters from the idle
\* gateway).
SendReplyCalled ==
    Idle /\ call'.op = "send_reply" /\ call' # call

\* C1: whenever the context is a reply context its chat id is not None, and
\* a reply that sends (the instruction in progress, and the reply_sent record
\* it returns) is addressed to the chat id stored by the most recent
\* handle_incoming_message; text is the only argument of send_reply.
C1_ReplyGoesToLockedChannel ==
    /\ (current_context # <<>> /\ current_context[1].is_reply_to_incoming)
          => /\ current_context[1].incoming_chat_id # PyNone
             /\ current_context[1].incoming_chat_id = hist.last_inbound
    /\ call.op = "send_reply"
          => /\ DOMAIN call.args = {"text"}
             /\ call.state = "running" => call.msg[1].chat_id = hist.last_inbound
             /\ (call.state = "returned" /\ call.value.action = "reply_sent")
                   => call.value.chat_id = hist.last_inbound

C1_Witness ==
    /\ call.op = "send_reply"
    /\ call.state = "returned"
    /\ call.value.action = "reply_sent"
    /\ call.value.chat_id = "42"
    /\ hist.last_inbound = "42"

\* C2 as stated: once a send_reply has returned success and no
\* handle_incoming_message has come since, a further send_reply returns the
\* reply_failed record, sends nothing and leaves context and mode unchanged.
C2_SecondReplyFails ==
    [][(hist.reply_since # "none" /\ SendReplyCalled)
          => /\ call'.state = "returned"
             /\ call'.value = ReplyFailed
             /\ UNCHANGED <<current_context, interaction_mode>>]_vars

\* C2 amended: once a send_reply has sent (returned reply_sent) and no
\* handle_incoming_message has come since, a further send_reply returns the
\* reply_failed record, sends nothing and leaves context and mode unchanged.
C2_ReplyAfterSentFails ==
    [][(hist.reply_since = "reply_sent" /\ SendReplyCalled)
          => /\ call'.state = "returned"
             /\ call'.value = ReplyFailed
             /\ UNCHANGED <<current_context, interaction_mode>>]_vars

C2_Witness ==
    /\ hist.reply_since = "reply_sent"
    /\ call.op = "send_reply"
    /\ call.state = "returned"
    /\ call.value.action = "reply_failed"

\* C3 as stated: in a state whose mode is not telegram_webhook every
\* send_reply returns the reply_failed record, never success.
C3_ReplyFailsOutsideWebhook ==
    [][(interaction_mode # "telegram_webhook" /\ SendReplyCalled)
          => /\ call'.state = "returned"
             /\ call'.value = ReplyFailed]_vars

\* C3 amended: in a state whose mode is not telegram_webhook send_reply
\* never sends and changes neither context nor mode; it returns reply_failed
\* when no reply context is set, and the text-only success record
\* (text_reply) when the reply context is still set.
C3_NoSendOutsideWebhook ==
    [][(interaction_mode # "telegram_webhook" /\ SendReplyCalled)
          => /\ call'.state = "returned"
             /\ UNCHANGED <<current_context, interaction_mode>>
             /\ IF LockedChannel = PyNone
                THEN call'.value = ReplyFailed
                ELSE /\ call'.value.action = "text_reply"
                     /\ call'.value.success
                     /\ ~call'.value.chat_id_locked]_vars

C3_Witness ==
    /\ interaction_mode = "explicit"
    /\ call.op = "send_reply"
    /\ call.state = "returned"
    /\ call.value.action = "text_reply"

\* C4 as stated: whenever send_reply has returned a success record the
\* context is None and the mode is playground.
C4_SuccessResetsContext ==
    (call.op = "send_reply" /\ call.state = "returned" /\ call.value.success)
        => (current_context = <<>> /\ interaction_mode = "playground")

\* C4 amended: whenever send_reply has returned the reply_sent record the
\* context is None and the mode is playground; when it has returned the
\* text_reply success record the reply context is still set and the mode is
\* still the one that kept it from sending.
C4_SentResetsContext ==
    (call.op = "send_reply" /\ call.state = "returned" /\ call.value.success)
        => IF call.value.action = "reply_sent"
           THEN current_context = <<>> /\ interaction_mode = "playground"
           ELSE /\ call.value.action = "text_reply"
                /\ LockedChannel # PyNone
                /\ interaction_mode # "telegram_webhook"

C4_Witness ==
    /\ call.op = "send_reply"
    /\ call.state = "returned"
    /\ call.value.action = "reply_sent"
    /\ current_context = <<>>

\* C5: when send_admin_message has returned after an inbound receipt that
\* no reply has answered yet, the gateway still holds the lock on the
\* channel of that receipt.
C5_OperatorSendKeepsLock ==
    (/\ call.op = "send_admin_message"
     /\ call.state = "returned"
     /\ hist.last_inbound # PyNone
     /\ hist.reply_since = "none")
        => LockedChannel = hist.last_inbound

\* C6: send_admin_message can be called in every state of the idle gateway,
\* for every chat id, directly and through the orchestrator by a request
\* that is free; the instruction it sends and the record it returns name the
\* caller's chat id; the mode is explicit while self.run is in progress and
\* playground once the method has returned; the orchestrator hands the
\* record on as the result of an admin_message operation.
C6_OperatorSendAlwaysPermitted ==
    /\ Idle => \A chat_id \in AdminChatIds :
                  /\ ENABLED send_admin_message(chat_id, ReplyText("ping", <<>>),
                                                "direct")
                  /\ \A h \in Handlers :
                        handler[h].pc = "idle"
                           => ENABLED orchestrator_send_admin_message(
                                          h, chat_id, ReplyText("ping", <<>>))
    /\ (call.op = "send_admin_message" /\ call.state = "running")
          => /\ interaction_mode = "explicit"
             /\ call.msg[1].chat_id = call.args.chat_id
    /\ (call.op = "send_admin_message" /\ call.state = "returned")
          => /\ interaction_mode = "playground"
             /\ call.value.success
             /\ call.value.action = "admin_sent"
             /\ call.value.chat_id = call.args.chat_id
             /\ (/\ call.caller \in Handlers
                 /\ handler[call.caller].result # <<>>
                 /\ "operation" \in DOMAIN handler[call.caller].result[1])
                   => handler[call.caller].result = <<AdminMessage(call.value)>>

C6_Witness ==
    /\ call.op = "send_admin_message"
    /\ call.state = "returned"
    /\ call.value.chat_id = "99"
    /\ hist.last_inbound = PyNone
    /\ call.caller \in Handlers
    /\ handler[call.caller].result = <<AdminMessage(call.value)>>

\* The steps of the three operations that can change the mode.
InboundReceipt ==
    Idle /\ call'.op = "handle_incoming_message" /\ call'.state = "returned"

ReplySentStep ==
    /\ call.op = "send_reply" /\ call.state = "running"
    /\ call'.state = "returned"

OperatorSendStart ==
    Idle /\ call'.op = "send_admin_message" /\ call'.state = "running"

OperatorSendComplete ==
    /\ call.op = "send_admin_message" /\ call.state = "running"
    /\ call'.state = "returned"

ModeEdge(from, to) == interaction_mode = from /\ interaction_mode' = to

\* C7 as stated: under handle_incoming_message, send_reply and
\* send_admin_message the mode changes only along playground ->
\* telegram_webhook (inbound receipt), telegram_webhook -> playground (reply
\* sent), playground -> explicit (operator send start) and explicit ->
\* playground (operator send complete).
C7_FourModeEdges ==
    [][interaction_mode' # interaction_mode
          => \/ ModeEdge("playground", "telegram_webhook") /\ InboundReceipt
             \/ ModeEdge("telegram_webhook", "playground") /\ ReplySentStep
             \/ ModeEdge("playground", "explicit") /\ OperatorSendStart
             \/ ModeEdge("explicit", "playground") /\ OperatorSendComplete]_vars

\* C7 amended: under the three operations the mode changes only in these
\* steps: an inbound receipt sets telegram_webhook from any mode, a reply
\* that was sent takes telegram_webhook to playground, the start of an
\* operator send sets explicit from any mode (telegram_webhook included),
\* and the completion of an operator send takes explicit to playground.
C7_ModeChangesByOperation ==
    [][interaction_mode' # interaction_mode
          => \/ interaction_mode' = "telegram_webhook" /\ InboundReceipt
             \/ ModeEdge("telegram_webhook", "playground") /\ ReplySentStep
             \/ interaction_mode' = "explicit" /\ OperatorSendStart
             \/ ModeEdge("explicit", "playground") /\ OperatorSendComplete]_vars

C7_Witness ==
    /\ interaction_mode = "explicit"
    /\ call.op = "send_admin_message"
    /\ call.state = "running"
    /\ hist.last_inbound = "42"
    /\ hist.reply_since = "none"

\* The entries of an update that are there.
HasMessage(update) == "message" \in DOMAIN update
HasChat(update) == HasMessage(update) /\ "chat" \in DOMAIN update.message.d
HasSender(update) == HasMessage(update) /\ "from" \in DOMAIN update.message.d
HasChatId(update) == HasChat(update) /\ "id" \in DOMAIN update.message.d.chat.d
HasSenderId(update) ==
    HasSender(update) /\ "id" \in DOMAIN update.message.d["from"].d
HasText(update) == HasMessage(update) /\ "text" \in DOMAIN update.message.d

\* message, chat and from are each missing or a JSON object.
ObjectsWhereExpected(update) ==
    /\ HasMessage(update) => update.message.t = "dict"
    /\ (HasMessage(update) /\ update.message.t = "dict")
          => /\ "chat" \in DOMAIN update.message.d
                   => update.message.d.chat.t = "dict"
             /\ "from" \in DOMAIN update.message.d
                   => update.message.d["from"].t = "dict"

\* The receipt and the gateway after a handle_incoming_message that returned.
ReceiptLocksChannel ==
    /\ call.state = "returned"
    /\ call.value.action = "message_received"
    /\ call.value.success
    /\ interaction_mode = "telegram_webhook"
    /\ LockedChannel = call.value.chat_id
    /\ call.value.reply_chat_id_locked = call.value.chat_id
    /\ ~HasChatId(call.args.update) => call.value.chat_id = ""
    /\ ~HasSenderId(call.args.update) => call.value.user_id = ""
    /\ ~HasText(call.args.update) => call.value.message_text = JText(<<>>)

\* C8 as stated: handle_incoming_message returns a success receipt for
\* every update, with "" for each missing field, and leaves the gateway in
\* telegram_webhook mode with the receipt's chat id locked.
C8_ReceiveAlwaysSucceeds ==
    call.op = "handle_incoming_message" => ReceiptLocksChannel

\* C8 amended: handle_incoming_message returns a success receipt, with ""
\* for each missing field, and leaves the gateway in telegram_webhook mode
\* with the receipt's chat id locked, for every update whose message, chat
\* and from entries are each missing or an object; for an update in which
\* one of them is there and is not an object (null) it raises
\* AttributeError.
C8_ReceiveSucceedsOnObjects ==
    call.op = "handle_incoming_message"
        => IF ObjectsWhereExpected(call.args.update)
           THEN ReceiptLocksChannel
           ELSE call.state = "raised" /\ call.value.exception = "AttributeError"

C8_Witness ==
    /\ call.op = "handle_incoming_message"
    /\ call.args.update = <<>>
    /\ call.state = "returned"
    /\ call.value.chat_id = ""
    /\ LockedChannel = ""

\* This step is request h calling send_reply.
RequestReplies(h) ==
    /\ handler[h].pc = "received"
    /\ handler'[h].pc # "received"

\* C9: when both requests have made their inbound receipt (the later one for
\* another channel) and neither has replied, the reply of whichever request
\* comes first is sent to the channel of the later receipt; and the reply of
\* the other request, made right after that reply was sent, returns
\* reply_failed and sends nothing, so the channel of the earlier receipt
\* gets no reply.
C9_SingleSlotContext ==
    [][\A h \in Handlers : \A g \in Handlers \ {h} :
          /\ (/\ handler[h].pc = "received" /\ handler[g].pc = "received"
              /\ call.op = "handle_incoming_message" /\ call.state = "returned"
              /\ RequestReplies(h))
                => /\ call'.op = "send_reply" /\ call'.state = "running"
                   /\ call'.msg[1].chat_id = call.value.chat_id
                   /\ call'.msg[1].chat_id
                         = handler[call.caller].receive_result[1].chat_id
          /\ (/\ handler[h].pc = "received"
              /\ call.op = "send_reply" /\ call.state = "returned"
              /\ call.caller = g /\ call.value.action = "reply_sent"
              /\ RequestReplies(h))
                => /\ call'.op = "send_reply" /\ call'.state = "returned"
                   /\ call'.value = ReplyFailed
                   /\ handler'[h].result[1].reply_result = ReplyFailed]_vars

\* Both requests are over: one reply went to a channel that is not the one
\* of its own receipt, the other reply failed.
C9_Witness ==
    \E h \in Handlers : \E g \in Handlers \ {h} :
        /\ handler[h].pc = "idle" /\ handler[g].pc = "idle"
        /\ handler[h].result # <<>> /\ handler[g].result # <<>>
        /\ "operation" \in DOMAIN handler[h].result[1]
        /\ "operation" \in DOMAIN handler[g].result[1]
        /\ handler[h].result[1].operation = "telegram_reply"
        /\ handler[g].result[1].operation = "telegram_reply"
        /\ handler[h].result[1].reply_result.action = "reply_sent"
        /\ handler[h].result[1].receive_result.chat_id = "42"
        /\ handler[h].result[1].reply_result.chat_id = "7"
        /\ handler[g].result[1].receive_result.chat_id = "7"
        /\ handler[g].result[1].reply_result = ReplyFailed

\* keyword occurs in text in some letter case
ContainsAnyCase(text, keyword) ==
    \E i \in 0..(Len(text) - Len(keyword)) :
        \A j \in 1..Len(keyword) : LowerChar(text[i + j]) = keyword[j]

CategoryOrder == <<"masumi_network", "finance_agent", "web_agent", "help">>

CategoryKeywords(category) ==
    CASE category = "masumi_network" -> masumi_keywords
      [] category = "finance_agent" -> finance_keywords
      [] category = "web_agent" -> web_keywords
      [] category = "help" -> help_keywords

Mentions(text, category) ==
    \E k \in 1..Len(CategoryKeywords(category)) :
        ContainsAnyCase(text, CategoryKeywords(category)[k])

\* C10: a text that holds a marketplace keyword in any letter case is
\* classified masumi_network whatever other keywords it holds; and the
\* category returned is the first of masumi_network, finance_agent,
\* web_agent, help that the text mentions, general_response when it
\* mentions none.
C10_MarketplaceFirst ==
    route_output # <<>>
        => LET workflow == route_output[1].suggested_workflow IN
           /\ Mentions(route_input, "masumi_network")
                 => workflow = "masumi_network"
           /\ \A c \in 1..Len(CategoryOrder) :
                 workflow = CategoryOrder[c]
                    <=> /\ Mentions(route_input, CategoryOrder[c])
                        /\ \A b \in 1..(c - 1) :
                              ~Mentions(route_input, CategoryOrder[b])
           /\ workflow = "general_response"
                 <=> \A c \in 1..Len(CategoryOrder) :
                        ~Mentions(route_input, CategoryOrder[c])

C10_Witness ==
    /\ route_input = TEXT_MASUMI
    /\ route_output # <<>>
    /\ route_output[1].suggested_workflow = "masumi_network"

Categories ==
    {"masumi_network", "finance_agent", "web_agent", "help", "general_response"}

\* C11: for every text the router returns a decision that names exactly one
\* of the five categories: the decision always carries suggested_workflow,
\* its value is one of the five, and a reply is always required.
C11_DecisionNamesOneCategory ==
    route_output # <<>>
        => /\ "suggested_workflow" \in DOMAIN route_output[1]
           /\ route_output[1].suggested_workflow \in Categories
           /\ Cardinality({c \in Categories :
                              route_output[1].suggested_workflow = c}) = 1
           /\ route_output[1].requires_reply

C11_Witness ==
    /\ route_input = <<"o", "k">>
    /\ route_output # <<>>
    /\ route_output[1].suggested_workflow = "general_response"

\* text is empty or made of spaces only
IsBlank(text) == \A i \in 1..Len(text) : text[i] = " "

\* C12 as stated: an empty or whitespace-only text is classified
\* general_response and the text echoed between the quotes is empty.
C12_BlankEchoesEmpty ==
    (route_output # <<>> /\ IsBlank(route_input))
        => /\ route_output[1].suggested_workflow = "general_response"
           /\ route_output[1].reply_text.echo = <<>>

\* C12 amended: an empty or whitespace-only text is classified
\* general_response and the reply echoes the text exactly as given, not
\* trimmed: nothing for the empty text, the same run of spaces otherwise.
C12_BlankEchoesAsGiven ==
    (route_output # <<>> /\ IsBlank(route_input))
        => /\ route_output[1].suggested_workflow = "general_response"
           /\ route_output[1].reply_text.template = "general_response"
           /\ route_output[1].reply_text.echo = route_input

C12_Witness ==
    /\ route_input = <<" ", " ">>
    /\ route_output # <<>>
    /\ route_output[1].reply_text.echo = <<" ", " ">>

\* the run stored under workflow_id, when there is one
StoredRun(workflow_id) == WorkflowStatus(active_workflows, workflow_id)[1]

\* C13: right after create_workflow returns, the status of the run it
\* returned is created; right after execute_workflow returns, the status of
\* the run it executed is completed.
C13_CreatedThenCompleted ==
    /\ ledger_call.op = "create_workflow"
          => /\ WorkflowStatus(active_workflows, ledger_call.value.workflow_id) # <<>>
             /\ StoredRun(ledger_call.value.workflow_id).status = "created"
    /\ (ledger_call.op = "execute_workflow" /\ ledger_call.exception = PyNone)
          => /\ WorkflowStatus(active_workflows, ledger_call.args.workflow_id) # <<>>
             /\ StoredRun(ledger_call.args.workflow_id).status = "completed"
             /\ ledger_call.value.workflow.status = "completed"

C13_Witness ==
    /\ ledger_call.op = "execute_workflow"
    /\ ledger_call.exception = PyNone
    /\ ledger_call.args.workflow_id = "job_0"
    /\ created_ids = <<"job_0">>

\* C14: any two create_workflow calls return different ids, so that after
\* n calls the Ledger holds n runs.
C14_CreateIdsUnique ==
    /\ \A i, j \in 1..Len(created_ids) : i # j => created_ids[i] # created_ids[j]
    /\ Len(active_workflows) = Len(created_ids)

\* how many of the listed runs carry workflow_id
Listed(workflow_id) ==
    Cardinality({i \in 1..Len(ListActive(active_workflows)) :
                    ListActive(active_workflows)[i].workflow_id = workflow_id})

\* C15: a run that was created is listed exactly once; right after its
\* creation its steps_completed and steps_failed are both empty; and every
\* run listed carries an id some earlier create_workflow returned.
C15_CreatedListedOnce ==
    /\ \A c \in 1..Len(created_ids) : Listed(created_ids[c]) = 1
    /\ ledger_call.op = "create_workflow"
          => /\ Listed(ledger_call.value.workflow_id) = 1
             /\ \A i \in 1..Len(ListActive(active_workflows)) :
                   ListActive(active_workflows)[i].workflow_id
                         = ledger_call.value.workflow_id
                      => /\ ListActive(active_workflows)[i].steps_completed = <<>>
                         /\ ListActive(active_workflows)[i].steps_failed = <<>>
    /\ \A i \in 1..Len(ListActive(active_workflows)) :
          \E c \in 1..Len(created_ids) :
             ListActive(active_workflows)[i].workflow_id = created_ids[c]

C15_Witness ==
    /\ ledger_call.op = "create_workflow"
    /\ ledger_call.value.workflow_id = "etl_1"
    /\ Len(ListActive(active_workflows)) = 2
    /\ Listed("etl_1") = 1

\* the create_workflow call, by its place in created_ids, whose run is the
\* one now stored under the id it returned
Stands(c) == \A later \in (c + 1)..Len(created_ids) : created_ids[later] # created_ids[c]

\* C16: the runs are listed in the order of their creation: the run of an
\* earlier create_workflow call precedes the run of a later one.
C16_ListInCreationOrder ==
    \A c1, c2 \in 1..Len(created_ids) :
        (c1 < c2 /\ Stands(c1) /\ Stands(c2))
            => Index(active_workflows, created_ids[c1])
                  < Index(active_workflows, created_ids[c2])

\* C17: execute_workflow with an id that is not in the Ledger raises
\* ValueError and leaves the table, and so every stored run, unchanged.
C17_ExecuteUnknownFails ==
    [][(/\ ledger_call'.op = "execute_workflow"
        /\ ledger_call'.args.workflow_id \notin Keys(active_workflows))
          => /\ ledger_call'.exception = "ValueError"
             /\ active_workflows' = active_workflows]_vars

C17_Witness ==
    /\ ledger_call.op = "execute_workflow"
    /\ ledger_call.exception = "ValueError"
    /\ ledger_call.args.workflow_id = "etl_0"
    /\ Keys(active_workflows) = {"job_0"}

\* workflow_id was never returned by a create_workflow
NeverCreated(workflow_id) ==
    \A c \in 1..Len(created_ids) : created_ids[c] # workflow_id

\* C18: POST /workflow/{id}/execute with an id that was never created
\* answers 404, and never success with status "running".
C18_ExecuteUnknownAnswers404 ==
    (/\ ledger_call.op = "POST /workflow/{workflow_id}/execute"
     /\ NeverCreated(ledger_call.args.workflow_id))
        => /\ ledger_call.value.status_code = 404
           /\ "status" \notin DOMAIN ledger_call.value.body

\* C19: asking the status of an id that is not in the Ledger returns None
\* from get_workflow_status and 404 from GET /workflow/{id}/status, raises
\* nothing, and adds no entry to the table.
C19_StatusUnknownNotFound ==
    [][/\ (/\ ledger_call'.op = "get_workflow_status"
           /\ ledger_call'.args.workflow_id \notin Keys(active_workflows))
             => /\ ledger_call'.exception = PyNone
                /\ ledger_call'.value.optional = <<>>
                /\ active_workflows' = active_workflows
       /\ (/\ ledger_call'.op = "GET /workflow/{workflow_id}/status"
           /\ ledger_call'.args.workflow_id \notin Keys(active_workflows))
             => /\ ledger_call'.exception = PyNone
                /\ ledger_call'.value.status_code = 404
                /\ active_workflows' = active_workflows]_vars

C19_Witness ==
    /\ ledger_call.op = "GET /workflow/{workflow_id}/status"
    /\ ledger_call.args.workflow_id = "nonexistent"
    /\ ledger_call.value.status_code = 404
    /\ Keys(active_workflows) = {"job_0", "etl_0"}

TerminalStatuses == {"completed", "failed", "timeout"}

\* C20: once a run's status is completed, failed or timeout, an
\* execute_workflow of that run changes neither its status nor its end_time.
C20_TerminalAbsorbing ==
    [][\A i \in 1..Len(active_workflows) :
          (/\ active_workflows[i].value.status \in TerminalStatuses
           /\ ledger_call'.op = "execute_workflow"
           /\ ledger_call'.args.workflow_id = active_workflows[i].key)
             => /\ active_workflows'[i].value.status = active_workflows[i].value.status
                /\ active_workflows'[i].value.end_time
                      = active_workflows[i].value.end_time]_vars

\* C21: in every state of the Ledger a run has an end_time exactly when its
\* status is completed, failed or timeout; a created or running run has none.
C21_EndTimeIffTerminal ==
    \A i \in 1..Len(active_workflows) :
        active_workflows[i].value.end_time # <<>>
            <=> active_workflows[i].value.status \in TerminalStatuses

\* the web agent has been invoked in the coordination in progress
WebInvoked == \E i \in 1..Len(facade.calls) : facade.calls[i].agent = "web_agent"

\* the masumi agent answered with a text that holds the trigger phrase in
\* some letter case
TriggerAnswered ==
    /\ facade.first # <<>>
    /\ facade.first[1] # <<>>
    /\ ContainsAnyCase(facade.first[1][1], TRIGGER_PHRASE)

\* C22: in coordinate_masumi_search the web agent is invoked only after a
\* masumi answer that holds "more information needed" in some letter case,
\* and by the time the call has returned it has been invoked exactly when
\* the answer held it; the calls are made in the order masumi agent, web
\* agent, synthesis, and the synthesis prompt holds both answers.
C22_WebIffTrigger ==
    facade.op = "coordinate_masumi_search"
        => /\ WebInvoked => TriggerAnswered
           /\ facade.pc = "done" => (WebInvoked <=> TriggerAnswered)
           /\ \A i \in 1..Len(facade.calls) :
                 facade.calls[i].agent = <<"masumi_agent", "web_agent", "self">>[i]
           /\ Len(facade.calls) = 3
                 => facade.calls[3].prompt.values
                       = <<facade.first[1], facade.second[1]>>
           /\ (facade.pc = "done" /\ WebInvoked /\ facade.raised = <<>>)
                 => Len(facade.calls) = 3

C22_Witness ==
    /\ facade.op = "coordinate_masumi_search"
    /\ facade.pc = "done"
    /\ Len(facade.calls) = 3
    /\ facade.first[1][1] # TRIGGER_PHRASE
    /\ facade.result[1].success

\* the masumi agent answered with a text that does not hold the trigger
\* phrase, and the call has returned
AnsweredWithoutTrigger ==
    /\ facade.op = "coordinate_masumi_search"
    /\ facade.pc = "done"
    /\ facade.first # <<>>
    /\ facade.first[1] # <<>>
    /\ ~ContainsAnyCase(facade.first[1][1], TRIGGER_PHRASE)

\* C23 as stated: when the masumi answer does not hold the trigger phrase
\* the synthesis is still invoked, on that answer alone, and the result
\* returned is the synthesis output.
C23_SynthesisOverFirstAlone ==
    AnsweredWithoutTrigger
        => /\ \E i \in 1..Len(facade.calls) :
                 /\ facade.calls[i].agent = "self"
                 /\ facade.calls[i].prompt.values = <<facade.first[1]>>
           /\ "combined_result" \in DOMAIN facade.result[1]

\* C23 amended: when the masumi answer does not hold the trigger phrase
\* neither the web agent nor the synthesis is invoked; the call returns
\* workflow "masumi_only" with the masumi answer itself as masumi_result,
\* success true, and no combined_result.
C23_FirstAloneUnsynthesised ==
    AnsweredWithoutTrigger
        => /\ Len(facade.calls) = 1
           /\ facade.calls[1].agent = "masumi_agent"
           /\ facade.result[1] = [workflow |-> "masumi_only",
                                  masumi_result |-> facade.first[1],
                                  success |-> TRUE]

C23_Witness ==
    /\ AnsweredWithoutTrigger
    /\ facade.first[1][1] = <<"o", "k">>
    /\ facade.result[1].workflow = "masumi_only"

\* C24: when a step of a coordination raises, the call has returned at once:
\* no further member is invoked, the result has success false and carries
\* the error text, and through the route the request is answered 200 with
\* success false.
C24_FacadeCatchesAll ==
    facade.raised # <<>>
        => /\ facade.pc = "done"
           /\ Len(facade.calls) = facade.raised[1].after
           /\ facade.result # <<>>
           /\ ~facade.result[1].success
           /\ facade.result[1].error = facade.raised[1].error
           /\ facade.caller = "http"
                 => /\ facade.response # <<>>
                    /\ facade.response[1].status_code = 200
                    /\ ~facade.response[1].body.success
                    /\ facade.response[1].body.result = facade.result[1]

C24_Witness ==
    /\ facade.op = "coordinate_financial_analysis"
    /\ facade.caller = "http"
    /\ facade.raised # <<>>
    /\ facade.raised[1].after = 3
    /\ facade.response # <<>>

\* C25: run and arun hand the call to the orchestrator's own run when it has
\* one, with message and stream only, and to the parent Agent's run or arun
\* otherwise; what the delegate returns is returned; when the delegate
\* raises, a SimpleResponse is returned whose content is the apology with
\* the error text in it; and neither ever raises.
C25_WrapperNeverRaises ==
    wrapper_call.op \in {"run", "arun"}
        => /\ wrapper_call.has_run => wrapper_call.delegate = "AgentOrchestrator.run"
           /\ ~wrapper_call.has_run
                 => wrapper_call.delegate
                       = (IF wrapper_call.op = "run" THEN "Agent.run" ELSE "Agent.arun")
           /\ ~wrapper_call.outcome.raised
           /\ wrapper_call.delegate_outcome.raised
                 => /\ wrapper_call.outcome.value.class = "SimpleResponse"
                    /\ wrapper_call.outcome.value.content.error
                          = wrapper_call.delegate_outcome.error
           /\ ~wrapper_call.delegate_outcome.raised
                 => wrapper_call.outcome.value.content
                       = wrapper_call.delegate_outcome.content

C25_Witness ==
    /\ wrapper_call.op = "arun"
    /\ wrapper_call.has_run
    /\ wrapper_call.delegate_outcome.raised
    /\ wrapper_call.outcome.value.class = "SimpleResponse"

\* the values of the members of AgentType
AgentTypeValues == {AgentType[i] : i \in 1..Len(AgentType)}

\* C26: get_agent returns an instance, configured with the model it was
\* given, for every member of AgentType, and raises ValueError for every
\* other identifier, None and plain strings included.
C26_RegistryClosedSet ==
    registry_call.op = "get_agent"
        => LET agent_id == registry_call.args.agent_id
               known == /\ agent_id.class = "AgentType"
                        /\ agent_id.value \in AgentTypeValues
           IN /\ known => /\ registry_call.exception = PyNone
                          /\ registry_call.value # <<>>
                          /\ registry_call.value[1].model_id
                                = registry_call.args.model_id
              /\ ~known => /\ registry_call.exception = "ValueError"
                           /\ registry_call.value = <<>>

C26_Witness ==
    /\ registry_call.op = "get_agent"
    /\ registry_call.args.agent_id = Member("telegram_mcp_agent")
    /\ registry_call.value # <<>>
    /\ registry_call.value[1].factory = "get_telegram_mcp_agent"

\* the call met a missing endpoint or token, or a backend that failed
ToolFailed ==
    \/ tool_call.toolkit = "MasumiTools" /\ ~tool_call.env.masumi_token
    \/ tool_call.toolkit = "MasumiTools"
          /\ ~(tool_call.env.registry_base_url /\ tool_call.env.payment_base_url)
    \/ tool_call.toolkit # "MasumiTools" /\ ~tool_call.env.telegram_token
    \/ \E i \in 1..Len(tool_call.backend) : tool_call.backend[i] # "ok"

\* C27: no tool function of MasumiTools, SimpleTelegramTools or
\* TelegramTools raises: a missing endpoint or token and a failed backend
\* call come back as an error string.
C27_ToolsNeverRaise ==
    (tool_call.op # PyNone /\ ToolFailed) => ~tool_call.outcome.raised

\* the execute route has just answered for a run that is in the Ledger
ExecuteAnswered(workflow_id) ==
    /\ ledger_call.op = "POST /workflow/{workflow_id}/execute"
    /\ ledger_call.args.workflow_id = workflow_id
    /\ ledger_call.value.body.status = "running"
    /\ workflow_id \in Keys(active_workflows)

\* C28: once the execute route has answered "running" for a run that is in
\* the Ledger, the run stored under that id is eventually completed.
C28_ExecuteEventuallyCompletes ==
    \A workflow_id \in RunIds :
        ExecuteAnswered(workflow_id)
            ~> (/\ workflow_id \in Keys(active_workflows)
                /\ StoredRun(workflow_id).status = "completed")

\* C29: the stub execution records nothing: whatever steps and mode a run
\* was created with, and whether or not it has been executed, its
\* steps_completed, steps_failed and results are empty, its error_message
\* is None, and its status is neither "failed" nor "timeout"; the same
\* holds of the run execute_workflow returns.
RecordsNothing(run) ==
    /\ run.steps_completed = <<>>
    /\ run.steps_failed = <<>>
    /\ run.results = <<>>
    /\ run.error_message = PyNone
    /\ run.status \notin {"failed", "timeout"}

C29_StubRecordsNothing ==
    /\ \A i \in 1..Len(active_workflows) :
          RecordsNothing(active_workflows[i].value)
    /\ (/\ ledger_call.op = "execute_workflow"
        /\ ledger_call.exception = PyNone)
          => RecordsNothing(ledger_call.value.workflow)

\* a run has been executed, and another has just been created with a step
\* that has depends_on, condition and timeout_seconds, in conditional mode
C29_Witness ==
    /\ ledger_call.op = "create_workflow"
    /\ ledger_call.args.mode = "conditional"
    /\ Len(ledger_call.args.steps) = 1
    /\ ledger_call.args.steps[1].timeout_seconds = 300
    /\ ledger_call.args.steps[1].depends_on # <<>>
    /\ StoredRun(ledger_call.value.workflow_id).status = "created"
    /\ \E i \in 1..Len(active_workflows) :
          /\ active_workflows[i].value.status = "completed"
          /\ active_workflows[i].value.end_time # <<>>

\* This step ends a handle_telegram_update: the request has returned or an
\* exception has left it.
RequestEnds ==
    /\ handler'["h1"] # handler["h1"]
    /\ handler'["h1"].pc = "idle"

RequestResult == handler'["h1"].result[1]

\* The request received the update, sent one reply to the channel of the
\* receipt, returned "telegram_reply" and left the gateway in its default
\* state.
RepliedAndReset ==
    /\ "operation" \in DOMAIN RequestResult
    /\ RequestResult.operation = "telegram_reply"
    /\ RequestResult.receive_result.action = "message_received"
    /\ RequestResult.reply_result.action = "reply_sent"
    /\ RequestResult.reply_result.chat_id = RequestResult.receive_result.chat_id
    /\ hist' = [last_inbound |-> RequestResult.receive_result.chat_id,
                reply_since |-> "reply_sent"]
    /\ current_context' = <<>>
    /\ interaction_mode' = "playground"

\* C30 as stated: a handle_telegram_update run alone on a gateway in any
\* state always ends with the update received, one reply sent to the
\* update's own channel id, the result "telegram_reply", and the gateway in
\* the default state with no channel locked.
C30_UpdateAlwaysReplied == [][RequestEnds => RepliedAndReset]_vars

\* C30: a handle_telegram_update run alone on a gateway in any state never
\* returns "telegram_received"; when it returns, it has received the update,
\* sent one reply to the update's own channel id, returned "telegram_reply"
\* and left the gateway in the default state with no channel locked; when
\* an exception leaves it before the reply (a message, chat or sender that
\* is not an object, a text that is not a string) context and mode are as
\* they were, and when the send raises, the gateway stays in
\* telegram_webhook with the update's channel locked.
C30_UpdateRepliedOrRaised ==
    [][RequestEnds =>
          IF "raised" \notin DOMAIN RequestResult
          THEN RepliedAndReset
          ELSE IF handler["h1"].pc = "replying"
          THEN /\ interaction_mode' = "telegram_webhook"
               /\ current_context' =
                     <<IncomingContext(handler["h1"].receive_result[1].chat_id)>>
               /\ hist'.reply_since = "none"
          ELSE /\ handler["h1"].pc = "idle"
               /\ RequestResult.raised = "AttributeError"
               /\ UNCHANGED <<current_context, interaction_mode, hist>>]_vars

\* a request for the update of channel 7 has sent its reply to channel 7 and
\* returned, and the gateway is in its default state
C30_Witness ==
    /\ handler["h1"].pc = "idle"
    /\ handler["h1"].result # <<>>
    /\ "operation" \in DOMAIN handler["h1"].result[1]
    /\ handler["h1"].result[1].operation = "telegram_reply"
    /\ handler["h1"].result[1].reply_result.action = "reply_sent"
    /\ handler["h1"].result[1].reply_result.chat_id = "7"
    /\ hist.last_inbound = "7"
    /\ call.op = "send_reply"
    /\ call.caller = "h1"
    /\ call.state = "returned"
    /\ current_context = <<>>
    /\ interaction_mode = "playground"

====
